---- MODULE Spec2Model ----
(***************************************************************************)
(* Model of lib/vector-vrl/functions/src/context.rs: the process-wide      *)
(* context store behind the VRL functions open_context and update_context. *)
(*                                                                         *)
(* GLOBAL_CONTEXT is a Mutex<Option<GlobalContext>>; GlobalContext holds a *)
(* HashMap<u64, SingleContext>.  Each caller thread runs resolve() of      *)
(* OpenContextFn or UpdateContextFn; the steps of one resolve() that other *)
(* threads can interleave with are separate actions.  A panic unwinds the  *)
(* call; when it happens while the MutexGuard is alive the mutex becomes   *)
(* poisoned and every later lock().unwrap() panics.                        *)
(*                                                                         *)
(* u64 / i64 are scaled down to KeyBits bits (TLC integers are 32 bit);    *)
(* the conversions keep their two's-complement behaviour at that width.    *)
(***************************************************************************)
EXTENDS Integers, FiniteSets, Sequences, TLC

VARIABLES global, lockHolder, poisoned, now, pc, call, result, ctx, started,
          creates, updated, last, opened, writes

vars == <<global, lockHolder, poisoned, now, pc, call, result, ctx, started,
          creates, updated, last, opened, writes>>

(* ----------------------------- bounds -------------------------------- *)

NumProcs == 2
MaxCalls == 3
MaxTime == 1
KeyBits == 3

Procs == 1..NumProcs

(* ------------------------ VRL values (vrl::value) --------------------- *)

NullV == <<"Null", 0>>
IntV(n) == <<"Integer", n>>
BytesV(s) == <<"Bytes", s>>
ObjV(m) == <<"Object", m>>

EmptyObj == ObjV({})
DataA == ObjV({<<"a", IntV(1)>>})
DataB == IntV(5)

\* ObjectMap::get: the Option is the set holding the value, or the empty set
Get(obj, field) == {q[2] : q \in {r \in obj[2] : r[1] = field}}

Unwrap(opt) == CHOOSE v \in opt : TRUE

(* --------------------------- integer widths --------------------------- *)

Modulus == 2 ^ KeyBits

\* `hash as i64`
AsI64(h) == IF h >= Modulus \div 2 THEN h - Modulus ELSE h

\* mutation: the magnitude of the key (unsigned_abs), not its bit pattern
AsU64Abs(k) == IF k < 0 THEN 0 - k ELSE k

\* `*key_value as u64`
AsU64(k) == k % Modulus

\* self.timeout.try_into(): Option of the u64, empty for a negative i64
TryIntoU64(t) == IF t < 0 THEN {} ELSE {t}

(* --------------------------- key derivation --------------------------- *)

HashSeed == 1
HashMult == 4

RECURSIVE HashFold(_, _)
HashFold(h, s) ==
    IF s = <<>> THEN h
    ELSE HashFold((h * HashMult + Head(s)[2]) % Modulus, Tail(s))

\* DefaultHasher over the resolved Vec<Value>: deterministic, order
\* sensitive, KeyBits wide; distinct sequences may collide
Hash(keys) == HashFold(HashSeed, keys)

(* ------------------------------ inputs -------------------------------- *)

Lookups == {<<IntV(2)>>, <<IntV(1), IntV(2)>>, <<IntV(2), IntV(1)>>}
Timeouts == {-1, 0, 1}
UnknownKey == 0 - 1
CallerData == {DataA, DataB}

\* ObjectMap::insert and ObjectMap::remove on the caller's own copy
ObjInsert(obj, field, v) == ObjV({r \in obj[2] : r[1] # field} \cup {<<field, v>>})
ObjRemove(obj, field) == ObjV({r \in obj[2] : r[1] # field})

\* what a caller can turn a received {key, data} object into before update
Edits(obj) ==
    {ObjInsert(obj, "data", v) : v \in CallerData}
    \cup {ObjRemove(obj, "data"), ObjRemove(obj, "key"),
          ObjInsert(obj, "key", BytesV("k")),
          ObjInsert(obj, "key", IntV(UnknownKey))}

U64 == 0..(Modulus - 1)
I64 == (0 - Modulus \div 2)..(Modulus \div 2 - 1)

(* ------------------------------ the store ------------------------------ *)

\* struct SingleContext, stored under its HashMap key
SingleContext(k, d, u) == [key |-> k, data |-> d, until |-> u]

\* mutation: a missing `data` field falls back to null (unwrap_or_default)
DataOrNull(context) ==
    IF Get(context, "data") = {} THEN {NullV} ELSE Get(context, "data")

\* context.get("data") of line 183, an Option
DataOf(context) == Get(context, "data")

\* GlobalContext::new
GlobalContextNew == {}

NoneGlobal == [some |-> FALSE, contexts |-> {}]
SomeGlobal(c) == [some |-> TRUE, contexts |-> c]

\* if global.is_none() { *global = Some(GlobalContext::new()) }; as_mut().unwrap()
Contexts(g) == IF g.some THEN g.contexts ELSE GlobalContextNew

ContainsKey(contexts, k) == \E e \in contexts : e.key = k

EntryOf(contexts, k) == CHOOSE e \in contexts : e.key = k

\* the closure of or_insert_with: the new entry, or nothing when
\* try_into().unwrap() panics on the timeout
NewContext(k, timeout, t) ==
    {SingleContext(k, EmptyObj, t + secs) : secs \in TryIntoU64(timeout)}

\* mutation: an occupied key whose entry has expired counts as vacant
OrInsertExpired(contexts, k, made) ==
    IF made = {} \/ \E e \in contexts : e.key = k /\ e.until >= now
    THEN contexts
    ELSE {e \in contexts : e.key # k} \cup made

\* mutation: an occupied key is overwritten by the closure's entry
OrInsertReplace(contexts, k, made) ==
    IF made = {} THEN contexts
    ELSE {e \in contexts : e.key # k} \cup made

\* mutation: an occupied key has its expiry pushed out to the new one
OrInsertExtend(contexts, k, made) ==
    {e \in contexts : e.key # k}
    \cup {SingleContext(k, e.data,
                        IF \E m \in made : m.until > e.until
                        THEN (CHOOSE m \in made : TRUE).until ELSE e.until) :
            e \in {x \in contexts : x.key = k}}
    \cup (IF \E e \in contexts : e.key = k THEN {} ELSE made)

\* mutation: the entry is inserted whether or not the key is vacant
OrInsertAlways(contexts, k, made) == contexts \cup made

\* HashMap::entry(k).or_insert_with(..): the closure's entry is inserted
\* only when the key is vacant
OrInsertWith(contexts, k, made) ==
    IF ContainsKey(contexts, k) THEN contexts ELSE contexts \cup made

\* mutation: an occupied key keeps its old `until`
HashMapInsertKeepUntil(contexts, k, d, u) ==
    {e \in contexts : e.key # k}
    \cup {SingleContext(k, d, IF \E e \in contexts : e.key = k
                             THEN (CHOOSE e \in contexts : e.key = k).until
                             ELSE u)}

\* mutation: get_mut semantics, a vacant key is not inserted
HashMapInsertOccupied(contexts, k, d, u) ==
    IF \E e \in contexts : e.key = k
    THEN {e \in contexts : e.key # k} \cup {SingleContext(k, d, u)}
    ELSE contexts

\* mutation: a stored value that is not the empty map is kept, an insert
\* only fills in an empty one (the first writer wins)
HashMapInsertFirstWins(contexts, k, d, u) ==
    IF \E e \in contexts : e.key = k /\ e.data # EmptyObj
    THEN {e \in contexts : e.key # k}
         \cup {SingleContext(k, e.data, u) : e \in {f \in contexts : f.key = k}}
    ELSE {e \in contexts : e.key # k} \cup {SingleContext(k, d, u)}

\* mutation: the insert sweeps out the entries that have expired
HashMapInsertSweep(contexts, k, d, u) ==
    {e \in contexts : e.key # k /\ e.until >= u} \cup {SingleContext(k, d, u)}

\* mutation: the new entry expires one second after the update
HashMapInsertExtend(contexts, k, d, u) ==
    {e \in contexts : e.key # k} \cup {SingleContext(k, d, u + 1)}

\* mutation: or_insert semantics, an occupied key keeps its old value
HashMapInsertVacant(contexts, k, d, u) ==
    IF ContainsKey(contexts, k) THEN contexts
    ELSE contexts \cup {SingleContext(k, d, u)}

\* HashMap::insert(k, v): the value under k is replaced
HashMapInsert(contexts, k, d, u) ==
    {e \in contexts : e.key # k} \cup {SingleContext(k, d, u)}

(* ------------------------------ results -------------------------------- *)

Ok(v) == <<"Ok", v>>
\* a panic, tagged with the source line that raises it
Panic(line) == <<"Panic", <<"Line", line>>>>
NoResult == <<"None", NullV>>

NoCall == [op |-> "none", keys |-> <<>>, timeout |-> 0, hash |-> 0,
           context |-> NullV, key_value |-> 0]

NoEvent == <<"none", NullV>>

(* ------------------------------- Init ---------------------------------- *)

Init ==
    /\ global = NoneGlobal
    /\ lockHolder = 0
    /\ poisoned = FALSE
    /\ now = 0
    /\ pc = [p \in Procs |-> "idle"]
    /\ call = [p \in Procs |-> NoCall]
    /\ result = [p \in Procs |-> NoResult]
    /\ ctx = [p \in Procs |-> NullV]
    /\ started = 0
    /\ creates = [h \in U64 |-> 0]
    /\ updated = {}
    /\ last = [k \in I64 |-> NoEvent]
    /\ opened = {}
    /\ writes = [k \in U64 |-> <<>>]

\* mutation: the guard is leaked, the mutex stays locked after the call
ReturnKeepGuard(p, r) ==
    /\ result' = [result EXCEPT ![p] = r]
    /\ pc' = [pc EXCEPT ![p] = "idle"]
    /\ call' = [call EXCEPT ![p] = NoCall]
    /\ lockHolder' = lockHolder

\* the call of p ends with result r; a MutexGuard alive at that point drops
Return(p, r) ==
    /\ result' = [result EXCEPT ![p] = r]
    /\ pc' = [pc EXCEPT ![p] = "idle"]
    /\ call' = [call EXCEPT ![p] = NoCall]
    /\ lockHolder' = IF lockHolder = p THEN 0 ELSE lockHolder

(* ------------------------ OpenContextFn::resolve ----------------------- *)

\* mutation: the hasher is seeded per calling thread
OpenHashPerThread(p) ==
    /\ pc[p] = "idle"
    /\ started < MaxCalls
    /\ started' = started + 1
    /\ \E keys \in Lookups, timeout \in Timeouts :
          call' = [call EXCEPT ![p] =
                     [op |-> "open", keys |-> keys, timeout |-> timeout,
                      hash |-> (Hash(keys) + p) % Modulus,
                      context |-> NullV, key_value |-> 0]]
    /\ result' = [result EXCEPT ![p] = NoResult]
    /\ pc' = [pc EXCEPT ![p] = "open_lock"]
    /\ UNCHANGED <<global, lockHolder, poisoned, now, ctx, creates, updated, last, opened, writes>>

\* lines 95-98: resolve the key expressions and hash them
OpenHash(p) ==
    /\ pc[p] = "idle"
    /\ started < MaxCalls
    /\ started' = started + 1
    /\ \E keys \in Lookups, timeout \in Timeouts :
          call' = [call EXCEPT ![p] =
                     [op |-> "open", keys |-> keys, timeout |-> timeout,
                      hash |-> Hash(keys), context |-> NullV, key_value |-> 0]]
    /\ result' = [result EXCEPT ![p] = NoResult]
    /\ pc' = [pc EXCEPT ![p] = "open_lock"]
    /\ UNCHANGED <<global, lockHolder, poisoned, now, ctx, creates, updated, last, opened, writes>>

\* line 100: GLOBAL_CONTEXT.lock().unwrap()
OpenLock(p) ==
    /\ pc[p] = "open_lock"
    /\ lockHolder = 0
    /\ IF poisoned
       THEN Return(p, Panic(100))
       ELSE /\ lockHolder' = p
            /\ pc' = [pc EXCEPT ![p] = "open_entry"]
            /\ UNCHANGED <<result, call>>
    /\ UNCHANGED <<global, poisoned, now, ctx, started, creates, updated, last, opened, writes>>

\* mutation: or_insert in place of or_insert_with, the new entry and its
\* timeout conversion are evaluated before the key is looked up
OpenEntryEager(p) ==
    /\ pc[p] = "open_entry"
    /\ lockHolder = p
    /\ LET c == Contexts(global)
           h == call[p].hash
           made == NewContext(h, call[p].timeout, now)
       IN IF made = {}
          THEN /\ global' = SomeGlobal(c)
               /\ poisoned' = TRUE
               /\ Return(p, Panic(107))
               /\ UNCHANGED creates
          ELSE /\ global' = SomeGlobal(OrInsertWith(c, h, made))
               /\ creates' = [creates EXCEPT ![h] =
                                 IF OrInsertWith(c, h, made) = c THEN @
                                 ELSE @ + 1]
               /\ pc' = [pc EXCEPT ![p] = "open_ret"]
               /\ UNCHANGED <<poisoned, lockHolder, result, call>>
    /\ UNCHANGED <<now, ctx, started, updated, last, opened, writes>>

\* lines 101-108: lazy initialisation, then entry(hash).or_insert_with(..);
\* the closure runs only for a vacant key and panics on a negative timeout
OpenEntry(p) ==
    /\ pc[p] = "open_entry"
    /\ lockHolder = p
    /\ LET c == Contexts(global)
           h == call[p].hash
           made == NewContext(h, call[p].timeout, now)
       IN IF ~ContainsKey(c, h) /\ made = {}
          THEN /\ global' = SomeGlobal(c)
               /\ poisoned' = TRUE
               /\ Return(p, Panic(107))
               /\ UNCHANGED creates
          ELSE /\ global' = SomeGlobal(OrInsertWith(c, h, made))
               /\ creates' = [creates EXCEPT ![h] =
                                 IF OrInsertWith(c, h, made) = c THEN @
                                 ELSE @ + 1]
               /\ pc' = [pc EXCEPT ![p] = "open_ret"]
               /\ UNCHANGED <<poisoned, lockHolder, result, call>>
    /\ UNCHANGED <<now, ctx, started, updated, last, opened, writes>>

\* mutation: the entry's data is moved out of the store, not cloned
OpenReturnTake(p) ==
    /\ pc[p] = "open_ret"
    /\ lockHolder = p
    /\ LET h == call[p].hash
           entry == EntryOf(Contexts(global), h)
           ret == ObjV({<<"key", IntV(AsI64(h))>>, <<"data", entry.data>>})
       IN /\ Return(p, Ok(ret))
          /\ ctx' = [ctx EXCEPT ![p] = ret]
          /\ last' = [last EXCEPT ![AsI64(h)] = <<"open", entry.data>>]
          /\ opened' = opened \cup {call[p].keys}
          /\ global' = SomeGlobal(
                 HashMapInsert(Contexts(global), h, NullV, entry.until))
    /\ UNCHANGED <<poisoned, now, started, creates, updated, writes>>

\* lines 110-114: build {key, data} from the entry and hand it to the caller
OpenReturn(p) ==
    /\ pc[p] = "open_ret"
    /\ lockHolder = p
    /\ LET h == call[p].hash
           entry == EntryOf(Contexts(global), h)
           ret == ObjV({<<"key", IntV(AsI64(h))>>, <<"data", entry.data>>})
       IN /\ Return(p, Ok(ret))
          /\ ctx' = [ctx EXCEPT ![p] = ret]
          /\ last' = [last EXCEPT ![AsI64(h)] = <<"open", entry.data>>]
          /\ opened' = opened \cup {call[p].keys}
    /\ UNCHANGED <<global, poisoned, now, started, creates, updated, writes>>

(* ----------------------- UpdateContextFn::resolve ---------------------- *)

\* line 170: evaluate the context expression; the caller's object moves
\* into the call
UpdateResolve(p) ==
    /\ pc[p] = "idle"
    /\ started < MaxCalls
    /\ started' = started + 1
    /\ call' = [call EXCEPT ![p] =
                  [op |-> "update", keys |-> <<>>, timeout |-> 0, hash |-> 0,
                   context |-> ctx[p], key_value |-> 0]]
    /\ ctx' = [ctx EXCEPT ![p] = NullV]
    /\ result' = [result EXCEPT ![p] = NoResult]
    /\ pc' = [pc EXCEPT ![p] = "update_match"]
    /\ UNCHANGED <<global, lockHolder, poisoned, now, creates, updated, last, opened, writes>>

\* lines 170-175: the value must be an object holding an integer `key`;
\* anything else panics before the lock is taken
UpdateMatch(p) ==
    /\ pc[p] = "update_match"
    /\ LET v == call[p].context
           key == IF v[1] = "Object" THEN Get(v, "key") ELSE {}
       IN IF key # {} /\ Unwrap(key)[1] = "Integer"
          THEN /\ call' = [call EXCEPT ![p].key_value = Unwrap(key)[2]]
               /\ pc' = [pc EXCEPT ![p] = "update_lock"]
               /\ UNCHANGED <<result, lockHolder>>
          ELSE Return(p, Panic(IF v[1] # "Object" THEN 171
                               ELSE IF key = {} THEN 173 ELSE 174))
    /\ UNCHANGED <<global, poisoned, now, ctx, started, creates, updated, last, opened, writes>>

\* mutation: the map is reached without waiting for the mutex
UpdateLockNoWait(p) ==
    /\ pc[p] = "update_lock"
    /\ IF poisoned
       THEN Return(p, Panic(177))
       ELSE /\ lockHolder' = p
            /\ pc' = [pc EXCEPT ![p] = "update_insert"]
            /\ UNCHANGED <<result, call>>
    /\ UNCHANGED <<global, poisoned, now, ctx, started, creates, updated, last, opened, writes>>

\* line 177: GLOBAL_CONTEXT.lock().unwrap()
UpdateLock(p) ==
    /\ pc[p] = "update_lock"
    /\ lockHolder = 0
    /\ IF poisoned
       THEN Return(p, Panic(177))
       ELSE /\ lockHolder' = p
            /\ pc' = [pc EXCEPT ![p] = "update_insert"]
            /\ UNCHANGED <<result, call>>
    /\ UNCHANGED <<global, poisoned, now, ctx, started, creates, updated, last, opened, writes>>

\* lines 178-185: lazy initialisation, then contexts.insert(key as u64, ..);
\* context.get("data").unwrap() is evaluated before the insert runs
UpdateInsert(p) ==
    /\ pc[p] = "update_insert"
    /\ lockHolder = p
    /\ LET c == Contexts(global)
           k == AsU64(call[p].key_value)
           data == DataOf(call[p].context)
       IN IF data = {}
          THEN /\ global' = SomeGlobal(c)
               /\ poisoned' = TRUE
               /\ Return(p, Panic(183))
               /\ UNCHANGED <<last, updated, writes>>
          ELSE /\ global' = SomeGlobal(HashMapInsert(c, k, Unwrap(data), now))
               /\ last' = [last EXCEPT ![call[p].key_value] =
                              <<"update", Unwrap(data)>>]
               /\ updated' = updated \cup {k}
               /\ writes' = [writes EXCEPT ![k] = Append(@, Unwrap(data))]
               /\ pc' = [pc EXCEPT ![p] = "update_ret"]
               /\ UNCHANGED <<poisoned, lockHolder, result, call>>
    /\ UNCHANGED <<now, ctx, started, creates, opened>>

\* line 187: Ok(Value::Null)
UpdateReturn(p) ==
    /\ pc[p] = "update_ret"
    /\ lockHolder = p
    /\ Return(p, Ok(NullV))
    /\ UNCHANGED <<global, poisoned, now, ctx, started, creates, updated, last, opened, writes>>

(* ------------------------------ environment ---------------------------- *)

\* between two calls the caller rewrites its own copy of the context object
CallerMutate(p) ==
    /\ pc[p] = "idle"
    /\ started < MaxCalls
    /\ ctx[p][1] = "Object"
    /\ result[p] = Ok(ctx[p])
    /\ \E v \in Edits(ctx[p]) : ctx' = [ctx EXCEPT ![p] = v]
    /\ result' = [result EXCEPT ![p] = NoResult]
    /\ UNCHANGED <<global, lockHolder, poisoned, now, pc, call, started,
                   creates, updated, last, opened, writes>>

\* Instant::now() advances
Tick ==
    /\ now < MaxTime
    /\ now' = now + 1
    /\ UNCHANGED <<global, lockHolder, poisoned, pc, call, result, ctx, started,
                   creates, updated, last, opened, writes>>

Next ==
    \/ \E p \in Procs : OpenHash(p)
    \/ \E p \in Procs : OpenLock(p)
    \/ \E p \in Procs : OpenEntry(p)
    \/ \E p \in Procs : OpenReturn(p)
    \/ \E p \in Procs : UpdateResolve(p)
    \/ \E p \in Procs : UpdateMatch(p)
    \/ \E p \in Procs : UpdateLock(p)
    \/ \E p \in Procs : UpdateInsert(p)
    \/ \E p \in Procs : UpdateReturn(p)
    \/ \E p \in Procs : CallerMutate(p)
    \/ Tick

Spec == Init /\ [][Next]_vars

\* The store after caller FirstOpener has opened the first lookup sequence
\* with timeout 0 at time 0 and holds the returned object; MaxCalls then
\* counts the calls that follow.
FirstOpener == 1
FirstLookup == <<IntV(2)>>

InitRace ==
    LET h == Hash(FirstLookup)
        c == OrInsertWith(GlobalContextNew, h, NewContext(h, 0, 0))
        ret == ObjV({<<"key", IntV(AsI64(h))>>,
                     <<"data", EntryOf(c, h).data>>})
    IN /\ global = SomeGlobal(c)
       /\ lockHolder = 0
       /\ poisoned = FALSE
       /\ now = 0
       /\ pc = [p \in Procs |-> "idle"]
       /\ call = [p \in Procs |-> NoCall]
       /\ result = [p \in Procs |-> IF p = FirstOpener THEN Ok(ret) ELSE NoResult]
       /\ ctx = [p \in Procs |-> IF p = FirstOpener THEN ret ELSE NullV]
       /\ started = 0
       /\ creates = [k \in U64 |-> IF k = h THEN 1 ELSE 0]
       /\ updated = {}
       /\ last = [K \in I64 |-> IF K = AsI64(h)
                                THEN <<"open", EntryOf(c, h).data>>
                                ELSE NoEvent]
       /\ opened = {FirstLookup}
       /\ writes = [k \in U64 |-> <<>>]

SpecRace == InitRace /\ [][Next]_vars

\* a call that has started keeps running: each of its steps is taken when
\* it stays possible.  Starting a call, editing a copy and the clock are
\* the environment's choice and carry no fairness.  The blocking lock()
\* of lines 100 and 177 needs only weak fairness here because the number
\* of calls is bounded by MaxCalls.
CallFairness(p) ==
    /\ WF_vars(OpenLock(p))
    /\ WF_vars(OpenEntry(p))
    /\ WF_vars(OpenReturn(p))
    /\ WF_vars(UpdateMatch(p))
    /\ WF_vars(UpdateLock(p))
    /\ WF_vars(UpdateInsert(p))
    /\ WF_vars(UpdateReturn(p))

FairSpec == Spec /\ \A p \in Procs : CallFairness(p)

TypeOK ==
    /\ global.some \in BOOLEAN
    /\ \A e \in global.contexts : e.key \in U64
    /\ lockHolder \in 0..NumProcs
    /\ now \in 0..MaxTime

(* --------------------------- vocabulary of the claims ------------------ *)

EntriesFor(g, k) == {e \in Contexts(g) : e.key = k}

IsOk(r) == r[1] = "Ok"
IsPanic(r) == r[1] = "Panic"

\* the {key, data} object an open call hands back
OpenResult(k, d) == Ok(ObjV({<<"key", IntV(k)>>, <<"data", d>>}))

\* p leaves the or_insert_with step (into the return step, or by panicking)
OpenEntryStep(p) == pc[p] = "open_entry" /\ pc'[p] # "open_entry"
\* p returns from open_context with a result object
OpenReturnStep(p) == pc[p] = "open_ret" /\ pc'[p] = "idle"
\* p leaves the insert step of update_context
UpdateInsertStep(p) == pc[p] = "update_insert" /\ pc'[p] # "update_insert"
\* p returns from update_context
UpdateReturnStep(p) == pc[p] = "update_ret" /\ pc'[p] = "idle"
\* p leaves the pattern matches on the context of update_context
UpdateMatchStep(p) == pc[p] = "update_match" /\ pc'[p] # "update_match"

HasIntegerKey(v) ==
    v[1] = "Object" /\ Get(v, "key") # {} /\ Unwrap(Get(v, "key"))[1] = "Integer"
HasData(v) == v[1] = "Object" /\ Get(v, "data") # {}

(* ------------------------------- C1 ------------------------------------ *)

\* C1: concurrent open calls with the same lookup values all return the key
\* derived from those values, at most one of them creates the entry (exactly
\* one when no update has inserted that key), and the store holds exactly
\* one entry for the key afterwards.
C1_OneEntryPerKey ==
    /\ [](\A h \in U64 :
            /\ Cardinality(EntriesFor(global, h)) <= 1
            /\ creates[h] <= 1
            /\ creates[h] = 1 => Cardinality(EntriesFor(global, h)) = 1)
    /\ [][\A p \in Procs : OpenReturnStep(p) =>
            LET h == Hash(call[p].keys)
            IN /\ \E d \in {e.data : e \in Contexts(global')} :
                     result'[p] = OpenResult(AsI64(h), d)
               /\ Cardinality(EntriesFor(global', h)) = 1
               /\ h \notin updated => creates'[h] = 1]_vars

\* two opens with equal lookup values and different valid timeouts are in
\* flight; one has created the entry and still holds the lock
C1_Witness ==
    /\ pc[1] = "open_ret" /\ pc[2] = "open_lock"
    /\ call[1].keys = call[2].keys
    /\ call[1].timeout # call[2].timeout
    /\ call[1].timeout >= 0 /\ call[2].timeout >= 0
    /\ creates[call[1].hash] = 1
    /\ result[1] = NoResult /\ started = 2

(* ------------------------------- C2 ------------------------------------ *)

\* C2: once update({key: K, data: D}) has run, the next open call whose
\* lookup values derive K returns {key: K, data: D}, whatever the clock
\* shows, as long as no other update on K came in between.
C2_UpdateVisible ==
    [][\A p \in Procs : OpenReturnStep(p) =>
          LET K == AsI64(Hash(call[p].keys))
          IN last[K][1] = "update" => result'[p] = OpenResult(K, last[K][2])]_vars

\* an open has returned the data written by an update whose entry had
\* already expired when the open ran
C2_Witness ==
    \E p \in Procs, K \in I64 :
        /\ result[p] = OpenResult(K, DataA)
        /\ last[K] = <<"open", DataA>>
        /\ \E e \in EntriesFor(global, AsU64(K)) : e.until < now

(* ------------------------------- C3 ------------------------------------ *)

\* C3: an open call with a negative timeout fails and leaves the mapping as
\* it was, whether or not an entry exists for the derived key.
C3_NegativeTimeoutFails ==
    [][\A p \in Procs :
          (call[p].op = "open" /\ call[p].timeout < 0
             /\ pc[p] # "idle" /\ pc'[p] = "idle")
          => IsPanic(result'[p]) /\ Contexts(global') = Contexts(global)]_vars

(* ------------------------------- C4 ------------------------------------ *)

\* C4: an update whose context lacks `key`, has a non-integer `key`, or
\* lacks `data` fails, and the mapping is exactly as it was before the call;
\* no such call reaches the successful return.
C4_BadUpdateFails ==
    [][\A p \in Procs :
          /\ (UpdateMatchStep(p) /\ ~HasIntegerKey(call[p].context))
                => /\ IsPanic(result'[p]) /\ pc'[p] = "idle"
                   /\ Contexts(global') = Contexts(global)
          /\ (UpdateInsertStep(p) /\ ~HasData(call[p].context))
                => /\ IsPanic(result'[p]) /\ pc'[p] = "idle"
                   /\ Contexts(global') = Contexts(global)
          /\ UpdateReturnStep(p)
                => HasIntegerKey(call[p].context) /\ HasData(call[p].context)]_vars

\* an update without `data` has failed on a store that holds entries
C4_Witness ==
    \E p \in Procs : result[p] = Panic(183) /\ Contexts(global) # {}

(* ------------------------------- C5 ------------------------------------ *)

WellFormed(c) ==
    \/ c.op = "open" /\ c.timeout >= 0
    \/ c.op = "update" /\ HasIntegerKey(c.context) /\ HasData(c.context)

\* C5: a failed call aborts only itself: every well-formed open or update
\* call, whatever failed before it, acquires the store and succeeds.
C5_FailureIsLocal ==
    [][\A p \in Procs :
          (pc[p] # "idle" /\ pc'[p] = "idle" /\ WellFormed(call[p]))
          => IsOk(result'[p])]_vars

(* ------------------------------- C6 ------------------------------------ *)

\* C6 as stated: an update on a key that has an entry replaces the data and
\* leaves the entry's `until` as it was.
C6_UntilKept ==
    [][\A p \in Procs :
          LET k == AsU64(call[p].key_value)
          IN (UpdateInsertStep(p) /\ pc'[p] = "update_ret"
                /\ ContainsKey(Contexts(global), k))
             => /\ EntryOf(Contexts(global'), k).data
                      = Unwrap(Get(call[p].context, "data"))
                /\ EntryOf(Contexts(global'), k).until
                      = EntryOf(Contexts(global), k).until]_vars

\* C6 amended: an update on a key that has an entry replaces the data and
\* sets the entry's `until` to the time of the update; every entry under
\* another key stays as it was.
C6_UntilReset ==
    [][\A p \in Procs :
          LET k == AsU64(call[p].key_value)
          IN (UpdateInsertStep(p) /\ pc'[p] = "update_ret"
                /\ ContainsKey(Contexts(global), k))
             => /\ EntriesFor(global', k) =
                     {SingleContext(k, Unwrap(Get(call[p].context, "data")), now)}
                /\ \A e \in Contexts(global) : e.key # k => e \in Contexts(global')
                /\ \A e \in Contexts(global') : e.key # k => e \in Contexts(global)]_vars

\* an update has just overwritten an entry that an open created earlier
C6_Witness ==
    \E p \in Procs :
        /\ pc[p] = "update_ret"
        /\ creates[AsU64(call[p].key_value)] = 1
        /\ now > 0
        /\ EntriesFor(global, AsU64(call[p].key_value)) =
              {SingleContext(AsU64(call[p].key_value), DataA, now)}

(* ------------------------------- C7 ------------------------------------ *)

\* C7: an open on a key that has an entry changes nothing in the store,
\* expired or not and whatever its timeout, and returns the stored data.
C7_OpenKeepsEntry ==
    [][\A p \in Procs :
          LET h == call[p].hash
          IN /\ (OpenEntryStep(p) /\ ContainsKey(Contexts(global), h))
                   => pc'[p] = "open_ret" /\ Contexts(global') = Contexts(global)
             /\ OpenReturnStep(p)
                   => /\ Contexts(global') = Contexts(global)
                      /\ result'[p] =
                           OpenResult(AsI64(h), EntryOf(Contexts(global), h).data)]_vars

\* an open with a negative timeout is about to return the data of an entry
\* that was updated earlier and has expired
C7_Witness ==
    \E p \in Procs :
        /\ pc[p] = "open_ret"
        /\ call[p].timeout < 0
        /\ \E e \in EntriesFor(global, call[p].hash) :
              e.data = DataA /\ e.until < now

(* ------------------------------- C8 ------------------------------------ *)

\* C8: open calls with equal lookup values and no update on the key in
\* between return the same key and data (an empty map when the entry came
\* from open), and each of them after the first leaves the store unchanged.
C8_OpenIdempotent ==
    /\ [](\A K \in I64 :
            (last[K][1] = "open" /\ AsU64(K) \notin updated)
            => last[K][2] = EmptyObj)
    /\ [][\A p \in Procs :
            LET K == AsI64(Hash(call[p].keys))
            IN /\ (OpenEntryStep(p) /\ last[K][1] = "open")
                     => pc'[p] = "open_ret" /\ global' = global
               /\ (OpenReturnStep(p) /\ last[K][1] = "open")
                     => /\ result'[p] = OpenResult(K, last[K][2])
                        /\ global' = global]_vars

\* two opens of the same key have returned the same empty map at different
\* times
C8_Witness ==
    /\ \E K \in I64 :
          /\ result[1] = OpenResult(K, EmptyObj)
          /\ result[2] = result[1]
          /\ creates[AsU64(K)] = 1
          /\ \E e \in EntriesFor(global, AsU64(K)) : e.until < now

(* ------------------------------- C9 ------------------------------------ *)

DataAt(g, k) == {e.data : e \in EntriesFor(g, k)}

\* p rewrites its own copy between two calls
CallerMutateStep(p) == pc[p] = "idle" /\ pc'[p] = "idle" /\ ctx'[p] # ctx[p]

\* C9: the data stored under a key changes only in an update on that key or
\* when open creates the entry; a caller rewriting its copy changes neither
\* the store nor what other callers hold, and open returns the stored data.
C9_Snapshot ==
    [][/\ \A k \in U64 :
            DataAt(global', k) # DataAt(global, k)
            => \E p \in Procs :
                  \/ UpdateInsertStep(p) /\ AsU64(call[p].key_value) = k
                  \/ /\ OpenEntryStep(p) /\ call[p].hash = k
                     /\ DataAt(global, k) = {}
                     /\ DataAt(global', k) = {EmptyObj}
       /\ \A p \in Procs :
            /\ CallerMutateStep(p)
                  => /\ global' = global
                     /\ \A q \in Procs \ {p} :
                           ctx'[q] = ctx[q] /\ result'[q] = result[q]
            /\ OpenReturnStep(p)
                  => \E d \in DataAt(global, call[p].hash) :
                        result'[p] = OpenResult(AsI64(call[p].hash), d)]_vars

\* one caller holds a rewritten copy that differs from the stored data while
\* another caller's open of the same key is about to return
C9_Witness ==
    \E p \in Procs, q \in Procs :
        /\ p # q
        /\ pc[p] = "idle" /\ result[p] = NoResult
        /\ pc[q] = "open_ret"
        /\ ctx[p] = ObjV({<<"key", IntV(AsI64(call[q].hash))>>, <<"data", DataA>>})
        /\ DataAt(global, call[q].hash) = {EmptyObj}

(* ------------------------------- C10 ----------------------------------- *)

\* C10: a well-formed update succeeds for every integer key, present or
\* not: it returns null, the store then holds exactly one entry for the key
\* with the supplied data, and the entries under other keys are unchanged.
C10_UpdateUpserts ==
    [][\A p \in Procs :
          LET k == AsU64(call[p].key_value)
          IN /\ (UpdateInsertStep(p) /\ HasData(call[p].context))
                   => /\ pc'[p] = "update_ret"
                      /\ Cardinality(EntriesFor(global', k)) = 1
                      /\ DataAt(global', k) = Get(call[p].context, "data")
                      /\ \A j \in U64 \ {k} :
                            EntriesFor(global', j) = EntriesFor(global, j)
             /\ UpdateReturnStep(p)
                   => result'[p] = Ok(NullV) /\ global' = global]_vars

\* an update under a negative key that no open returns has succeeded next to
\* an entry under another key
C10_Witness ==
    \E p \in Procs :
        /\ result[p] = Ok(NullV)
        /\ creates[AsU64(UnknownKey)] = 0
        /\ DataAt(global, AsU64(UnknownKey)) = {EmptyObj}
        /\ Cardinality(Contexts(global)) = 2

(* ------------------------------- C11 ----------------------------------- *)

\* C11: the key an open call returns is a function of its ordered lookup
\* values alone: opens with equal sequences work on the same hash and return
\* the same key, whatever their timeout, thread, the store's contents or the
\* calls that ran in between.
C11_KeyDeterministic ==
    [][\A p \in Procs : OpenReturnStep(p) =>
          /\ \E d \in {e.data : e \in Contexts(global)} :
                result'[p] = OpenResult(AsI64(Hash(call[p].keys)), d)
          /\ \A q \in Procs :
                (call[q].op = "open" /\ call[q].keys = call[p].keys)
                => call[q].hash = call[p].hash]_vars

\* two threads open the same lookup values with different timeouts after
\* the clock moved and while the store already holds another key
C11_Witness ==
    \E p \in Procs, q \in Procs :
        /\ pc[p] = "open_ret" /\ pc[q] = "open_lock"
        /\ call[p].keys = call[q].keys
        /\ call[p].timeout # call[q].timeout
        /\ Cardinality(Contexts(global)) = 2
        /\ now > 0

(* ------------------------------- C12 ----------------------------------- *)

\* C12: after an update the entry's `until` is the time at which the update
\* ran, for a fresh key as for an occupied one, so by the time the update
\* returns the entry is already stale.
C12_UntilIsUpdateTime ==
    [][\A p \in Procs :
          LET k == AsU64(call[p].key_value)
          IN /\ (UpdateInsertStep(p) /\ pc'[p] = "update_ret")
                   => \A e \in EntriesFor(global', k) : e.until = now
             /\ UpdateReturnStep(p)
                   => /\ EntriesFor(global, k) # {}
                      /\ \A e \in EntriesFor(global', k) : e.until <= now']_vars

\* an update has completed on an entry that an open created earlier, and
\* the entry expires at the present time and not at the time of creation
C12_Witness ==
    \E p \in Procs :
        /\ result[p] = Ok(NullV)
        /\ now > 0
        /\ \E e \in Contexts(global) :
              e.data = DataB /\ e.until = now /\ creates[e.key] = 1

(* ------------------------------- C13 ----------------------------------- *)

KeysOf(g) == {e.key : e \in Contexts(g)}

\* C13: the store, once initialised, stays initialised, no step removes a
\* key from the mapping, and an open on an entry whose `until` has passed
\* finds it present and returns its data.
C13_NeverDeleted ==
    [][/\ global.some => global'.some
       /\ KeysOf(global) \subseteq KeysOf(global')
       /\ \A p \in Procs :
            LET h == call[p].hash
            IN (OpenReturnStep(p) /\ \E e \in EntriesFor(global, h) : e.until < now)
               => /\ result'[p] = OpenResult(AsI64(h), EntryOf(Contexts(global), h).data)
                  /\ EntriesFor(global', h) = EntriesFor(global, h)]_vars

\* an open is about to return an expired entry while the store holds a
\* second key
C13_Witness ==
    \E p \in Procs :
        /\ pc[p] = "open_ret"
        /\ call[p].timeout >= 0
        /\ Cardinality(KeysOf(global)) = 2
        /\ \E e \in EntriesFor(global, call[p].hash) :
              e.until < now /\ e.data = EmptyObj

(* ------------------------------- C14 ----------------------------------- *)

\* the steps of a call that run between lock() and the drop of the guard
InSection(p) == pc[p] \in {"open_entry", "open_ret", "update_insert", "update_ret"}

\* C14: a call is between lock() and the guard's drop exactly while it is
\* the lock holder, at most one call is there at a time, the mapping is
\* written and read only by the holder, and the caller-supplied arguments
\* are evaluated before the lock is taken and not again while it is held.
C14_LockDiscipline ==
    /\ [](/\ \A p \in Procs : InSection(p) <=> lockHolder = p
          /\ Cardinality({p \in Procs : InSection(p)}) <= 1
          /\ \A p \in Procs :
                lockHolder = p
                => \/ call[p].op = "open" /\ call[p].hash = Hash(call[p].keys)
                   \/ call[p].op = "update" /\ HasIntegerKey(call[p].context))
    /\ [][/\ global' # global => \E p \in Procs : lockHolder = p /\ InSection(p)
          /\ \A p \in Procs :
               /\ (result'[p] # result[p] /\ IsOk(result'[p]))
                     => lockHolder = p /\ lockHolder' = 0
               /\ (call'[p] # call[p] /\ call'[p].op # "none")
                     => lockHolder # p /\ lockHolder' # p]_vars

\* one call is inside the section while another has its arguments
\* evaluated and waits for the lock
C14_Witness ==
    \E p \in Procs, q \in Procs :
        /\ pc[p] = "update_insert" /\ lockHolder = p
        /\ pc[q] = "open_lock" /\ call[q].hash = Hash(call[q].keys)
        /\ global.some

(* ------------------------------- C15 ----------------------------------- *)

\* C15: under fair scheduling every call that has started finishes with a
\* result or an error and no longer holds the lock, and a held lock is
\* always released, whatever other calls do or fail with.
C15_CallsFinish ==
    /\ \A p \in Procs :
          (pc[p] # "idle")
             ~> (pc[p] = "idle" /\ lockHolder # p /\ result[p] # NoResult)
    /\ (lockHolder # 0) ~> (lockHolder = 0)

\* a call has failed inside the section and has finished, and another
\* caller now asks for the lock
C15_Witness ==
    \E p \in Procs, q \in Procs :
        /\ p # q
        /\ result[p] = Panic(107) /\ pc[p] = "idle"
        /\ pc[q] = "update_lock"
        /\ lockHolder = 0

(* ------------------------------- C16 ----------------------------------- *)

\* the lookup sequences other than that of p's call which have been opened
\* before and derive the key of p's call
SharedWith(p) ==
    {K \in opened : K # call[p].keys /\ Hash(K) = call[p].hash}

\* C16: an open whose key was opened before through a different lookup
\* sequence does not fail and creates nothing, whatever its timeout, and
\* returns the data last opened or updated under that key; the key keeps
\* its single entry.
C16_CollisionShares ==
    [][\A p \in Procs :
          LET h == call[p].hash
          IN SharedWith(p) # {}
             => /\ OpenEntryStep(p)
                     => /\ pc'[p] = "open_ret"
                        /\ global' = global
                        /\ creates' = creates
                /\ OpenReturnStep(p)
                     => /\ result'[p] = OpenResult(AsI64(h), last[AsI64(h)][2])
                        /\ global' = global
                        /\ Cardinality(EntriesFor(global', h)) = 1]_vars

\* an open with a negative timeout is about to return from a key that so
\* far was opened only through another lookup sequence and then updated
C16_Witness ==
    \E p \in Procs :
        /\ pc[p] = "open_ret"
        /\ call[p].timeout < 0
        /\ call[p].keys \notin opened
        /\ SharedWith(p) # {}
        /\ creates[call[p].hash] = 1
        /\ \E e \in EntriesFor(global, call[p].hash) : e.data = DataA

(* ------------------------------- C17 ----------------------------------- *)

\* the hashes of the lookup sequences opened so far whose signed form is K
OpenedAs(K) == {Hash(L) : L \in {M \in opened : AsI64(Hash(M)) = K}}

\* C17: the signed key of every hash, negative for the upper half of the
\* range, converts back to that hash; an update carrying a key that open
\* has returned writes the entry of the hash open used and leaves every
\* other entry as it was.
C17_KeyRoundTrip ==
    /\ [](\A h \in U64 :
             /\ AsI64(h) \in I64
             /\ (h >= Modulus \div 2 <=> AsI64(h) < 0)
             /\ AsU64(AsI64(h)) = h)
    /\ [][\A p \in Procs : \A h \in OpenedAs(call[p].key_value) :
             (UpdateInsertStep(p) /\ pc'[p] = "update_ret")
             => /\ EntriesFor(global', h) =
                      {SingleContext(h, Unwrap(DataOf(call[p].context)), now)}
                /\ \A e \in Contexts(global) :
                      e.key # h => e \in Contexts(global')
                /\ KeysOf(global') = KeysOf(global) \cup {h}]_vars

\* an update carrying a negative key that open returned has overwritten the
\* entry of that key's hash, next to an entry of another key
C17_Witness ==
    \E p \in Procs :
        LET K == call[p].key_value
        IN /\ pc[p] = "update_ret"
           /\ K < 0
           /\ OpenedAs(K) # {}
           /\ \A h \in OpenedAs(K) :
                 EntriesFor(global, h) = {SingleContext(h, DataA, now)}
           /\ Cardinality(KeysOf(global)) = 2

(* ------------------------------- C18 ----------------------------------- *)

\* C18: the data stored under a key that has been updated is exactly the
\* data argument of the latest update that got the lock for that key,
\* with nothing of the earlier updates or of the value before them kept,
\* however the opens, edits and updates of the callers interleave.
C18_LastWriterWins ==
    /\ [](\A k \in U64 :
             writes[k] # <<>>
             => DataAt(global, k) = {writes[k][Len(writes[k])]})
    /\ [][\A p \in Procs :
             LET k == AsU64(call[p].key_value)
             IN (UpdateInsertStep(p) /\ pc'[p] = "update_ret")
                => /\ writes'[k] =
                         Append(writes[k], Unwrap(DataOf(call[p].context)))
                   /\ DataAt(global', k) = {Unwrap(DataOf(call[p].context))}]_vars

\* the first opener and a second caller both held a copy of the same
\* entry, the second caller's update stored its value, and the first
\* opener's update, made from its older copy, has just replaced it
C18_Witness ==
    LET k == Hash(FirstLookup)
    IN /\ pc[FirstOpener] = "update_ret"
       /\ writes[k] = <<DataB, DataA>>
       /\ DataAt(global, k) = {DataA}
       /\ KeysOf(global) = {k}
       /\ creates[k] = 1

(* ------------------------------- C19 ----------------------------------- *)

\* C19: open creates the entry of a key at most once in an execution; while
\* a key is in the map, whether open or update put it there, it stays
\* there, no open creates it again, and an open on it leaves its entry as
\* it is, expired or not and whatever the timeout of that open.
C19_CreatedOnce ==
    /\ [](\A h \in U64 : creates[h] <= 1)
    /\ [][\A h \in U64 :
             /\ creates'[h] >= creates[h]
             /\ ContainsKey(Contexts(global), h)
                   => /\ ContainsKey(Contexts(global'), h)
                      /\ creates'[h] = creates[h]
                      /\ \A p \in Procs :
                            (call[p].hash = h
                             /\ (OpenEntryStep(p) \/ OpenReturnStep(p)))
                            => /\ EntriesFor(global', h) = EntriesFor(global, h)
                               /\ ~IsPanic(result'[p])]_vars

\* an open with a positive timeout has found the entry of a key that was
\* created once, updated, and has expired since, and has kept it
C19_Witness ==
    \E p \in Procs :
        LET h == call[p].hash
        IN /\ pc[p] = "open_ret"
           /\ call[p].timeout > 0
           /\ creates[h] = 1
           /\ h \in updated
           /\ EntriesFor(global, h) = {SingleContext(h, DataA, now - 1)}

====
